---- MODULE Spec2Model ----
(***************************************************************************)
(* A model of the two scripts of the repository:                           *)
(*   src/npm-scan.py    the lockfile compromise scanner  (SpecScan)        *)
(*   src/openrouter.py  the model pricing exporter       (SpecExport)      *)
(*   src/openrouter.py  score(), as a pure function      (SpecScore)       *)
(*                                                                         *)
(* Conventions.                                                            *)
(*  - A Python value that may be None is a sequence of length 0 (None) or  *)
(*    1 (the value).                                                       *)
(*  - A dict is the sequence of its items in insertion order (Python dicts *)
(*    iterate in insertion order, json.load keeps the document's order);   *)
(*    its keys are pairwise distinct.                                      *)
(*  - A path key of the "packages" map is the sequence of its segments,    *)
(*    that is path.split("/"): "node_modules/a" is <<"node_modules","a">>. *)
(*  - A fetched advisory page is the list of (name, version) tokens the    *)
(*    pattern of line 25 finds in its text.                                *)
(*  - A string of openrouter.py is the sequence of its characters.         *)
(*  - Prices and scores are whole amounts of 1e-12; score() is the exact   *)
(*    fraction and round(x, 12) the nearest whole amount, ties to even.    *)
(*  - An uncaught exception ends a script with exit status 1.              *)
(***************************************************************************)
EXTENDS Integers, Sequences, FiniteSets, TLC

VARIABLES
    \* ---- src/npm-scan.py
    pc,              \* position of the script
    lockfile_path,   \* line 10
    output_json,     \* line 11
    urlIdx,          \* index of the next url of the loop of line 30
    iocs,            \* line 26
    fetched_online,  \* line 29
    iocs_list,       \* line 45
    lockfile,        \* what lines 48-53 found at lockfile_path
    found,           \* line 56
    status,          \* line 83
    exit_code,       \* the exit status of the process, -1 while it runs
    out,             \* what was printed, in order
    \* ---- src/openrouter.py
    epc,             \* position of the script
    models,          \* line 38
    rows,            \* line 40
    top10,           \* line 64
    free5,           \* line 68
    best_per_family, \* line 74
    outfile,         \* the sheets written to OUTFILE, lines 84-87
    eout,            \* what was printed
    eexit,           \* the exit status of the process, -1 while it runs
    raised,          \* the exception that ended the run, if one did
    \* ---- src/openrouter.py, score() applied to chosen arguments
    spc, s_in, s_out, s_ctx1, s_ctx2, s_score1, s_score2

scanVars == <<pc, lockfile_path, output_json, urlIdx, iocs, fetched_online,
              iocs_list, lockfile, found, status, exit_code, out>>

exportVars == <<epc, models, rows, top10, free5, best_per_family, outfile,
                eout, eexit, raised>>

scoreVars == <<spc, s_in, s_out, s_ctx1, s_ctx2, s_score1, s_score2>>

vars == <<scanVars, exportVars, scoreVars>>

----------------------------------------------------------------------------
(* Python values *)

None == <<>>
Some(x) == <<x>>

\* Python's truth value of an optional string: None and "" are false.
Truthy(v) == v # None /\ v[1] # ""

Range(s) == {s[i] : i \in 1..Len(s)}

----------------------------------------------------------------------------
(* npm-scan.py: inputs *)

DefaultLockfile == "./package-lock.json"

MaxArgs == 2
ArgPool == {"--json", "alt-lock.json", "other-lock.json"}
Argvs == UNION {[1..n -> ArgPool] : n \in 0..MaxArgs}

\* urls, line 20. The script lists one advisory page; the loop of line 30 runs
\* over whatever the list holds, and the model runs it over NumUrls pages so
\* that a failed fetch followed by a successful one is covered.
NumUrls == 2
urls == [i \in 1..NumUrls |-> <<"advisory", i>>]

Ioc(p, v) == [package |-> p, version |-> v]
Chalk561 == Ioc("chalk", "5.6.1")
Debug442 == Ioc("debug", "4.4.2")

\* What pattern.findall(text) gives for the text of a fetched page: the page is
\* represented by the list of (name, version) tokens the pattern matches in it.
MatchCases == { <<>>,
                <<Chalk561>>,
                <<Debug442, Chalk561, Debug442>> }

----------------------------------------------------------------------------
(* npm-scan.py: lines 13-17, the argument loop *)

RECURSIVE ParseArgs(_, _, _)
ParseArgs(argv, path, json) ==
    IF argv = <<>> THEN [lockfile_path |-> path, output_json |-> json]
    ELSE IF Head(argv) = "--json"
         THEN ParseArgs(Tail(argv), path, TRUE)
         ELSE ParseArgs(Tail(argv), Head(argv), json)

----------------------------------------------------------------------------
(* npm-scan.py: lines 43-45, the deduplication *)

\* f"{ioc['package']}@{ioc['version']}"
IocKey(ioc) == <<ioc.package, "@", ioc.version>>

\* d[key] = value on a dict kept as the sequence of its items: an existing key
\* keeps its place and takes the new value, a new key is appended.
DictSet(d, key, value) ==
    IF \E i \in 1..Len(d) : d[i].key = key
    THEN [i \in 1..Len(d) |-> IF d[i].key = key
                              THEN [key |-> key, value |-> value] ELSE d[i]]
    ELSE Append(d, [key |-> key, value |-> value])

RECURSIVE unique_iocs_from(_, _)
unique_iocs_from(list, d) ==
    IF list = <<>> THEN d
    ELSE unique_iocs_from(Tail(list), DictSet(d, IocKey(Head(list)), Head(list)))

unique_iocs(list) == unique_iocs_from(list, <<>>)

DictValues(d) == [i \in 1..Len(d) |-> d[i].value]

----------------------------------------------------------------------------
(* npm-scan.py: the lockfile documents *)

NODE_MODULES == "node_modules"

Names == {"chalk", "debug"}

\* info.get("version") of a "packages" entry.
V2Versions == {None, Some("5.6.1"), Some("4.4.2")}

\* Keys of the "packages" map: the root project "", two packages installed at
\* the top of node_modules, and a transitive chalk installed under debug.
V2Paths == { <<"">>,
             <<NODE_MODULES, "chalk">>,
             <<NODE_MODULES, "debug">>,
             <<NODE_MODULES, "debug", NODE_MODULES, "chalk">> }

V2Entries == [path : V2Paths, version : V2Versions]

MaxPkgs == 2

V2Maps == UNION {{m \in [1..n -> V2Entries] :
                     \A i, j \in 1..n : m[i].path = m[j].path => i = j}
                 : n \in 0..MaxPkgs}

\* info.get("version") of a "dependencies" entry.
V1Versions == {None, Some("5.6.1")}

\* The "dependencies" map, three levels deep. A nested map holds at most one
\* entry, the top map at most MaxTopDeps.
V1Leaf == [name : Names, version : V1Versions, dependencies : {None}]
V1Level3 == {<<>>} \cup {<<e>> : e \in V1Leaf}
V1Mid == [name : Names, version : V1Versions,
          dependencies : {None} \cup {Some(m) : m \in V1Level3}]
V1Level2 == {<<>>} \cup {<<e>> : e \in V1Mid}
V1Top == [name : Names, version : V1Versions,
          dependencies : {None} \cup {Some(m) : m \in V1Level2}]

MaxTopDeps == 2

V1Maps == UNION {{m \in [1..n -> V1Top] :
                     \A i, j \in 1..n : m[i].name = m[j].name => i = j}
                 : n \in 0..MaxTopDeps}

\* The parsed documents: a JSON object with or without the keys "packages"
\* and "dependencies", every entry of either map a JSON object, as npm writes
\* them. A lockfile written by npm 7+ holds both keys.
BothDeps == { <<[name |-> "chalk", version |-> Some("5.6.1"), dependencies |-> None]>> }

LockDocs ==
    { [packages |-> None, dependencies |-> None] }
    \cup { [packages |-> Some(p), dependencies |-> None] : p \in V2Maps }
    \cup { [packages |-> None, dependencies |-> Some(d)] : d \in V1Maps }
    \cup { [packages |-> Some(p), dependencies |-> Some(d)] :
               p \in V2Maps, d \in BothDeps }

----------------------------------------------------------------------------
(* npm-scan.py: lines 58-76, the two walks *)

\* for ioc in iocs_list: if ioc["package"] == name and ioc["version"] == version:
\*     found.append(ioc)
AppendMatches(acc, name, version, list) ==
    LET Hit(ioc) == ioc.package = name /\ ioc.version = version
    IN  acc \o SelectSeq(list, Hit)

\* A slip of indentation: the recursion moved under "if version:".
RECURSIVE extract_from_v1_under_version(_, _, _)
extract_from_v1_under_version(deps, list, acc) ==
    IF deps = <<>> THEN acc
    ELSE LET info == Head(deps)
             a1 == IF Truthy(info.version)
                   THEN AppendMatches(acc, info.name, info.version[1], list)
                   ELSE acc
             a2 == IF Truthy(info.version) /\ info.dependencies # None
                   THEN extract_from_v1_under_version(info.dependencies[1], list, a1)
                   ELSE a1
         IN  extract_from_v1_under_version(Tail(deps), list, a2)

RECURSIVE extract_from_v1(_, _, _)
extract_from_v1(deps, list, acc) ==
    IF deps = <<>> THEN acc
    ELSE LET info == Head(deps)
             a1 == IF Truthy(info.version)
                   THEN AppendMatches(acc, info.name, info.version[1], list)
                   ELSE acc
             a2 == IF info.dependencies # None
                   THEN extract_from_v1(info.dependencies[1], list, a1)
                   ELSE a1
         IN  extract_from_v1(Tail(deps), list, a2)

\* path.startswith("node_modules/"): the first segment is node_modules and a
\* "/" follows it.
StartsWithNodeModules(path) == Len(path) >= 2 /\ path[1] = NODE_MODULES

RECURSIVE extract_from_v2(_, _, _)
extract_from_v2(packages_dict, list, acc) ==
    IF packages_dict = <<>> THEN acc
    ELSE LET info == Head(packages_dict)
             a1 == IF StartsWithNodeModules(info.path) /\ Truthy(info.version)
                   THEN AppendMatches(acc, info.path[2], info.version[1], list)
                   ELSE acc
         IN  extract_from_v2(Tail(packages_dict), list, a1)

\* lines 78-81
Scan(lock_data, list) ==
    IF lock_data.packages # None
    THEN extract_from_v2(lock_data.packages[1], list, <<>>)
    ELSE IF lock_data.dependencies # None
         THEN extract_from_v1(lock_data.dependencies[1], list, <<>>)
         ELSE <<>>

----------------------------------------------------------------------------
(* npm-scan.py: the script, top to bottom *)

ScanInit ==
    /\ pc = "args"
    /\ lockfile_path = DefaultLockfile
    /\ output_json = FALSE
    /\ urlIdx = 1
    /\ iocs = <<>>
    /\ fetched_online = FALSE
    /\ iocs_list = <<>>
    /\ lockfile = [kind |-> "unread"]
    /\ found = <<>>
    /\ status = "unset"
    /\ exit_code = -1
    /\ out = <<>>

\* lines 13-17
Arguments ==
    /\ pc = "args"
    /\ \E argv \in Argvs :
         LET a == ParseArgs(argv, lockfile_path, output_json)
         IN  /\ lockfile_path' = a.lockfile_path
             /\ output_json' = a.output_json
    /\ pc' = "fetch"
    /\ UNCHANGED <<urlIdx, iocs, fetched_online, iocs_list, lockfile, found,
                   status, exit_code, out>>
    /\ UNCHANGED <<exportVars, scoreVars>>

\* lines 30-39: one pass of the loop whose try block completes.
FetchOk ==
    /\ pc = "fetch"
    /\ urlIdx <= Len(urls)
    /\ \E matches \in MatchCases : iocs' = iocs \o matches
    /\ fetched_online' = TRUE
    /\ urlIdx' = urlIdx + 1
    /\ UNCHANGED <<pc, lockfile_path, output_json, iocs_list, lockfile, found,
                   status, exit_code, out>>
    /\ UNCHANGED <<exportVars, scoreVars>>

\* The flag set on the failure path as well.
FetchFail_sets_flag ==
    /\ pc = "fetch"
    /\ urlIdx <= Len(urls)
    /\ out' = Append(out, [kind |-> "fetch_error", url |-> urls[urlIdx]])
    /\ fetched_online' = TRUE
    /\ urlIdx' = urlIdx + 1
    /\ UNCHANGED <<pc, lockfile_path, output_json, iocs, iocs_list, lockfile,
                   found, status, exit_code>>
    /\ UNCHANGED <<exportVars, scoreVars>>

\* lines 30-33, 40-41: requests.get or raise_for_status raises; the error is
\* printed and the loop goes on.
FetchFail ==
    /\ pc = "fetch"
    /\ urlIdx <= Len(urls)
    /\ out' = Append(out, [kind |-> "fetch_error", url |-> urls[urlIdx]])
    /\ urlIdx' = urlIdx + 1
    /\ UNCHANGED <<pc, lockfile_path, output_json, iocs, fetched_online,
                   iocs_list, lockfile, found, status, exit_code>>
    /\ UNCHANGED <<exportVars, scoreVars>>

\* lines 44-45
Deduplicate ==
    /\ pc = "fetch"
    /\ urlIdx > Len(urls)
    /\ iocs_list' = DictValues(unique_iocs(iocs))
    /\ pc' = "load"
    /\ UNCHANGED <<lockfile_path, output_json, urlIdx, iocs, fetched_online,
                   lockfile, found, status, exit_code, out>>
    /\ UNCHANGED <<exportVars, scoreVars>>

\* The check of line 48 without the exit: open() then raises and the
\* interpreter exits with status 1.
LoadMissing_no_exit ==
    /\ pc = "load"
    /\ lockfile' = [kind |-> "missing"]
    /\ out' = Append(out, [kind |-> "not_found", path |-> lockfile_path])
    /\ exit_code' = 1
    /\ pc' = "done"
    /\ UNCHANGED <<lockfile_path, output_json, urlIdx, iocs, fetched_online,
                   iocs_list, found, status>>
    /\ UNCHANGED <<exportVars, scoreVars>>

\* lines 48-50: os.path.isfile is false.
LoadMissing ==
    /\ pc = "load"
    /\ lockfile' = [kind |-> "missing"]
    /\ out' = Append(out, [kind |-> "not_found", path |-> lockfile_path])
    /\ exit_code' = 2
    /\ pc' = "done"
    /\ UNCHANGED <<lockfile_path, output_json, urlIdx, iocs, fetched_online,
                   iocs_list, found, status>>
    /\ UNCHANGED <<exportVars, scoreVars>>

\* lines 52-53: json.load raises; nothing catches it, the interpreter prints
\* the traceback and exits with status 1.
LoadMalformed ==
    /\ pc = "load"
    /\ lockfile' = [kind |-> "malformed"]
    /\ exit_code' = 1
    /\ pc' = "done"
    /\ UNCHANGED <<lockfile_path, output_json, urlIdx, iocs, fetched_online,
                   iocs_list, found, status, out>>
    /\ UNCHANGED <<exportVars, scoreVars>>

\* lines 52-53: the document parses.
LoadOk ==
    /\ pc = "load"
    /\ \E doc \in LockDocs : lockfile' = [kind |-> "json", lock_data |-> doc]
    /\ pc' = "match"
    /\ UNCHANGED <<lockfile_path, output_json, urlIdx, iocs, fetched_online,
                   iocs_list, found, status, exit_code, out>>
    /\ UNCHANGED <<exportVars, scoreVars>>

\* lines 56-83
Match ==
    /\ pc = "match"
    /\ found' = Scan(lockfile.lock_data, iocs_list)
    /\ status' = IF found' = <<>> THEN "clean" ELSE "compromised"
    /\ pc' = "report"
    /\ UNCHANGED <<lockfile_path, output_json, urlIdx, iocs, fetched_online,
                   iocs_list, lockfile, exit_code, out>>
    /\ UNCHANGED <<exportVars, scoreVars>>

\* lines 86-113; the script ends and the interpreter exits with status 0.
Report ==
    /\ pc = "report"
    /\ out' = Append(out,
                IF output_json
                THEN [kind |-> "json", scanned_lockfile |-> lockfile_path,
                      status |-> status, fetched_from_internet |-> fetched_online,
                      findings |-> found, iocs_source |-> iocs_list]
                ELSE [kind |-> "text", scanned_lockfile |-> lockfile_path,
                      status |-> status, fetched_from_internet |-> fetched_online,
                      findings |-> IF status = "clean" THEN <<>> ELSE found])
    /\ exit_code' = 0
    /\ pc' = "done"
    /\ UNCHANGED <<lockfile_path, output_json, urlIdx, iocs, fetched_online,
                   iocs_list, lockfile, found, status>>
    /\ UNCHANGED <<exportVars, scoreVars>>

ScanNext ==
    \/ Arguments \/ FetchOk \/ FetchFail \/ Deduplicate
    \/ LoadMissing \/ LoadMalformed \/ LoadOk \/ Match \/ Report


----------------------------------------------------------------------------
(* openrouter.py: strings, as sequences of characters *)

\* str.lower() on the letters the model's strings hold in upper case.
LowerChar(c) ==
    CASE c = "A" -> "a" [] c = "M" -> "m" [] c = "R" -> "r" [] c = "X" -> "x"
      [] OTHER -> c

Lower(s) == [i \in 1..Len(s) |-> LowerChar(s[i])]

StartsWith(s, p) == Len(p) <= Len(s) /\ SubSeq(s, 1, Len(p)) = p
EndsWith(s, p) == Len(p) <= Len(s) /\ SubSeq(s, Len(s) - Len(p) + 1, Len(s)) = p
Contains(s, p) == \E i \in 1..(Len(s) - Len(p) + 1) : SubSeq(s, i, i + Len(p) - 1) = p

\* The characters of the model's strings in code point order, as Python
\* compares strings.
CodePoints == <<" ", "/", ":", "A", "M", "R", "X",
                "a", "b", "c", "d", "e", "f", "g", "h", "i", "j", "k", "l", "m",
                "n", "o", "p", "q", "r", "s", "t", "u", "v", "w", "x", "y", "z">>

Ord(c) == CHOOSE i \in 1..Len(CodePoints) : CodePoints[i] = c

\* a < b on strings
StrLess(a, b) ==
    \/ Len(a) < Len(b) /\ SubSeq(b, 1, Len(a)) = a
    \/ \E i \in 1..Len(a) :
         /\ i <= Len(b)
         /\ SubSeq(a, 1, i - 1) = SubSeq(b, 1, i - 1)
         /\ Ord(a[i]) < Ord(b[i])

\* "openrouter/auto"
S_openrouter_auto == <<"o", "p", "e", "n", "r", "o", "u", "t", "e", "r", "/", "a", "u", "t", "o">>
\* " router"
S_space_router == <<" ", "r", "o", "u", "t", "e", "r">>
\* "/auto"
S_slash_auto == <<"/", "a", "u", "t", "o">>
\* ":free"
S_colon_free == <<":", "f", "r", "e", "e">>

----------------------------------------------------------------------------
(* openrouter.py: lines 5-35, the functions *)

BASE_CTX == 8000
CTX_CAP == 524288

\* W_IN, W_OUT = 0.5, 0.5, as fractions of the same denominator.
W_DEN == [den |-> 2]
W_IN == [num |-> 1]
W_OUT == [num |-> 1]

\* A price of the catalog, as the JSON value m["pricing"].get(...) gives:
\*   [t |-> "null"]                 None (JSON null, or the key is missing)
\*   [t |-> "text", s |-> ...]      a string that spells no number
\*   [t |-> "numeral", v |-> n]     a string that spells the finite number n
\*   [t |-> "number", v |-> n]      a JSON number n
\* Amounts are integers in units of 1e-12 (a price of 100000 is 1e-7).
ffloat(x) ==
    IF x.t = "null" \/ (x.t = "text" /\ x.s \in {"", "null"}) THEN None
    ELSE IF x.t = "text" THEN None      \* float(x) raises, except: return None
    ELSE Some(x.v)

\* x or y, on optional integers: None and 0 are false.
PyOr(x, y) == IF x # None /\ x[1] # 0 THEN x ELSE y

\* ctx_of: m.get("top_provider", {}) is {} when the key is missing and None
\* when it is null; None.get raises AttributeError.
ctx_of(m) ==
    IF m.top_provider.t = "null" THEN [raises |-> TRUE]
    ELSE LET over == IF m.top_provider.t = "missing" THEN None
                     ELSE m.top_provider.context_length
             v == PyOr(PyOr(over, m.context_length), Some(0))
         IN  [raises |-> FALSE, v |-> v[1]]

OrEmpty(s) == IF s = None THEN <<>> ELSE s[1]

\* (mid or "").lower()+" "+(name or "").lower()
IdAndName(mid, name) == Lower(OrEmpty(mid)) \o <<" ">> \o Lower(OrEmpty(name))

is_router(mid, name) ==
    LET s == IdAndName(mid, name)
    IN  \/ StartsWith(s, S_openrouter_auto)
        \/ Contains(s, S_space_router)
        \/ EndsWith(s, S_slash_auto)

detect_free(mid, name, p_in, p_out) ==
    \/ Contains(IdAndName(mid, name), S_colon_free)
    \/ (p_in = 0 /\ p_out = 0)

\* (mid or "").split("/", 1)[0]
family(mid) ==
    LET s == OrEmpty(mid)
        slashes == {i \in 1..Len(s) : s[i] = "/"}
    IN  IF slashes = {} THEN s
        ELSE SubSeq(s, 1, (CHOOSE i \in slashes : \A j \in slashes : i <= j) - 1)

Min(a, b) == IF a <= b THEN a ELSE b

\* score with the cap left out: ctx_eff = ctx.
score_uncapped(p_in, p_out, ctx) ==
    IF ctx <= 0 THEN [inf |-> TRUE, num |-> 0, den |-> 1]
    ELSE [inf |-> FALSE,
          num |-> (W_IN.num * p_in + W_OUT.num * p_out) * BASE_CTX,
          den |-> W_DEN.den * ctx]

\* score, as the exact fraction num/den of the amounts; math.inf is [inf |-> TRUE].
\*   avg / denom = ((W_IN*p_in + W_OUT*p_out) * BASE_CTX) / (W_DEN * ctx_eff)
score(p_in, p_out, ctx) ==
    IF ctx <= 0 THEN [inf |-> TRUE, num |-> 0, den |-> 1]
    ELSE LET ctx_eff == Min(ctx, CTX_CAP)
         IN  [inf |-> FALSE,
              num |-> (W_IN.num * p_in + W_OUT.num * p_out) * BASE_CTX,
              den |-> W_DEN.den * ctx_eff]

\* The integer nearest to num/den, ties to the even one (num >= 0, den > 0).
RoundHalfEven(num, den) ==
    LET q == num \div den
        r == num % den
    IN  IF 2 * r < den THEN q
        ELSE IF 2 * r > den THEN q + 1
        ELSE IF q % 2 = 0 THEN q ELSE q + 1

\* round(x, 12) of a score: amounts are in units of 1e-12, so the result is
\* the nearest whole amount. round(math.inf, 12) is math.inf.
Round12(x) ==
    IF x.inf THEN [inf |-> TRUE, v |-> 0]
    ELSE [inf |-> FALSE, v |-> RoundHalfEven(x.num, x.den)]

\* round(v, 10) of a price: the nearest multiple of 100 units.
Round10(v) == 100 * RoundHalfEven(v, 100)

\* a < b on rounded scores
ScoreLess(a, b) == ~a.inf /\ (b.inf \/ a.v < b.v)

----------------------------------------------------------------------------
(* openrouter.py: the catalog *)

Model(id, name, pricing, top_provider, context_length) ==
    [id |-> id, name |-> name, pricing |-> pricing,
     top_provider |-> top_provider, context_length |-> context_length]

Missing == [t |-> "missing"]
Null == [t |-> "null"]
Numeral(n) == [t |-> "numeral", v |-> n]
Number(n) == [t |-> "number", v |-> n]
Text(str) == [t |-> "text", s |-> str]
Pricing(prompt, completion) == [t |-> "obj", prompt |-> prompt, completion |-> completion]
TopProvider(ctx) == [t |-> "obj", context_length |-> ctx]

Id_acme_a == <<"a", "c", "m", "e", "/", "a">>
Id_acme_b == <<"a", "c", "m", "e", "/", "b">>
Id_acme_i == <<"a", "c", "m", "e", "/", "i">>
Id_acme_j == <<"a", "c", "m", "e", "/", "j">>
Id_acme_k == <<"a", "c", "m", "e", "/", "k">>
Id_acme_r == <<"a", "c", "m", "e", "/", "r">>
Id_other_c == <<"o", "t", "h", "e", "r", "/", "c">>
Id_other_g == <<"o", "t", "h", "e", "r", "/", "g">>
Id_other_h == <<"o", "t", "h", "e", "r", "/", "h">>
Id_other_p == <<"o", "t", "h", "e", "r", "/", "p">>
Id_x_auto == <<"x", "/", "a", "u", "t", "o">>
Name_A == <<"A">>
Name_X == <<"X">>
Name_My_Router == <<"M", "y", " ", "R", "o", "u", "t", "e", "r">>
Name_Auto_Router == <<"A", "u", "t", "o", " ", "R", "o", "u", "t", "e", "r">>

\* The records the catalogs of the model are made of; their ids differ.
M_acme_a == Model(Some(Id_acme_a), Some(Name_A),
                  Pricing(Numeral(100000), Numeral(100000)), Missing, Some(8000))
\* the cheapest of acme, with no name and a provider context over the base one
M_acme_b == Model(Some(Id_acme_b), None,
                  Pricing(Numeral(50000), Numeral(50000)), TopProvider(Some(16000)), Some(8000))
\* free, context above CTX_CAP
M_other_c == Model(Some(Id_other_c), Some(Name_A),
                   Pricing(Number(0), Number(0)), TopProvider(None), Some(1000000))
\* the router itself, priced -1
M_openrouter_auto == Model(Some(S_openrouter_auto), Some(Name_Auto_Router),
                           Pricing(Numeral(-1), Numeral(-1)), Missing, Some(2000000))
\* " router" in the name
M_acme_r == Model(Some(Id_acme_r), Some(Name_My_Router),
                  Pricing(Numeral(100000), Numeral(100000)), Missing, Some(8000))
\* an id that ends with "/auto"
M_x_auto == Model(Some(Id_x_auto), Some(Name_X),
                  Pricing(Numeral(100000), Numeral(50000)), Missing, Some(8000))
\* "pricing": null
M_other_g == Model(Some(Id_other_g), Some(Name_A), Null, Missing, Some(8000))
\* "top_provider": null
M_other_h == Model(Some(Id_other_h), Some(Name_A),
                   Pricing(Numeral(100000), Numeral(100000)), Null, Some(8000))
\* no context length anywhere
M_acme_i == Model(Some(Id_acme_i), Some(Name_A),
                  Pricing(Numeral(100000), Numeral(100000)), TopProvider(Some(0)), None)
\* a price that spells no number and an empty one
M_acme_j == Model(Some(Id_acme_j), Some(Name_A),
                  Pricing(Text("n/a"), Text("")), Missing, Some(8000))
\* a negative completion price
M_acme_k == Model(Some(Id_acme_k), Some(Name_A),
                  Pricing(Numeral(1), Number(-1)), Missing, Some(8000))
\* no "pricing" key
M_other_p == Model(Some(Id_other_p), Some(Name_A), Missing, Missing, Some(8000))
\* no id and no name
M_anonymous == Model(None, None,
                     Pricing(Numeral(100000), Numeral(100000)), Missing, Some(8000))

ModelPool == {M_acme_a, M_acme_b, M_other_c, M_openrouter_auto, M_acme_r, M_x_auto,
              M_other_g, M_other_h, M_acme_i, M_acme_j, M_acme_k, M_other_p,
              M_anonymous}

MaxModels == 3

\* r.json().get("data", [])
Catalogs == UNION {[1..n -> ModelPool] : n \in 0..MaxModels}

----------------------------------------------------------------------------
(* openrouter.py: lines 40-59, the rows *)

\* m.get("pricing", {}).get(key): None when "pricing" is missing.
PricingGet(pricing, key) ==
    IF pricing.t = "missing" THEN Null
    ELSE IF key = "prompt" THEN pricing.prompt ELSE pricing.completion

\* A comparison turned around: the record is dropped only below zero.
cannot_rank_below_zero(p_in, p_out, ctx) ==
    \/ p_in = None \/ p_in[1] < 0
    \/ p_out = None \/ p_out[1] < 0
    \/ ctx < 0

\* line 47
cannot_rank(p_in, p_out, ctx) ==
    \/ p_in = None \/ p_in[1] < 0
    \/ p_out = None \/ p_out[1] < 0
    \/ ctx <= 0

Row(m, ctx, p_in, p_out) ==
    [id |-> m.id, name |-> m.name, family |-> family(m.id), context |-> ctx,
     price_in |-> p_in, price_out |-> p_out,
     score |-> Round12(score(p_in, p_out, ctx)),
     free |-> detect_free(m.id, m.name, p_in, p_out),
     streaming |-> "SSE (stream=true)"]

\* The loop of line 41. It ends early when ctx_of, or .get on a null "pricing",
\* raises.
RECURSIVE build_rows(_, _)
build_rows(ms, acc) ==
    IF ms = <<>> THEN [raises |-> FALSE, rows |-> acc]
    ELSE LET m == Head(ms)
         IN  IF is_router(m.id, m.name) THEN build_rows(Tail(ms), acc)
             ELSE IF ctx_of(m).raises \/ m.pricing.t = "null"
                  THEN [raises |-> TRUE, rows |-> acc]
             ELSE LET ctx == ctx_of(m).v
                      p_in == ffloat(PricingGet(m.pricing, "prompt"))
                      p_out == ffloat(PricingGet(m.pricing, "completion"))
                  IN  IF cannot_rank(p_in, p_out, ctx)
                      THEN build_rows(Tail(ms), acc)
                      ELSE build_rows(Tail(ms),
                                      Append(acc, Row(m, ctx, p_in[1], p_out[1])))

----------------------------------------------------------------------------
(* openrouter.py: lines 61-77, the three views *)

\* .head(n)
Take(s, n) == SubSeq(s, 1, Min(n, Len(s)))

\* ["score","price_in","price_out","context"], ascending=[True,True,True,False]
ByValue(a, b) ==
    \/ ScoreLess(a.score, b.score)
    \/ /\ a.score = b.score
       /\ \/ a.price_in < b.price_in
          \/ /\ a.price_in = b.price_in
             /\ \/ a.price_out < b.price_out
                \/ a.price_out = b.price_out /\ a.context > b.context

\* ["context","price_in","price_out"], ascending=[False,True,True]
ByContext(a, b) ==
    \/ a.context > b.context
    \/ /\ a.context = b.context
       /\ \/ a.price_in < b.price_in
          \/ a.price_in = b.price_in /\ a.price_out < b.price_out

\* ["family","score","price_in","price_out","context"]
ByFamilyThenValue(a, b) ==
    \/ StrLess(a.family, b.family)
    \/ a.family = b.family /\ ByValue(a, b)

\* "score"
ByScore(a, b) == ScoreLess(a.score, b.score)

\* The order sort_values is asked for, by the name the model gives its list
\* of columns.
Less(by, a, b) ==
    CASE by = "value" -> ByValue(a, b)
      [] by = "context" -> ByContext(a, b)
      [] by = "family" -> ByFamilyThenValue(a, b)
      [] by = "score" -> ByScore(a, b)

\* DataFrame.sort_values on several columns is a stable sort; so is, on the
\* few rows of the model, the sort on one column.
SortValues(s, by) ==
    LET n == Len(s)
        before(i) == Cardinality({j \in 1..n :
                        Less(by, s[j], s[i]) \/ (~Less(by, s[i], s[j]) /\ j < i)})
    IN  [k \in 1..n |-> s[CHOOSE i \in 1..n : before(i) = k - 1]]

\* GroupBy.first() of one column: its first value that is not null.
FirstValue(column) ==
    LET IsValue(v) == v # None
        values == SelectSeq(column, IsValue)
    IN  IF values = <<>> THEN None ELSE Head(values)

\* .groupby("family", as_index=False).first(): one row per family, in the
\* order of the families, each column the first value of the group that is not
\* null. Only id and name can be null.
RECURSIVE groupby_first(_)
groupby_first(sorted) ==
    IF sorted = <<>> THEN <<>>
    ELSE LET f == Head(sorted).family
             Same(r) == r.family = f
             Other(r) == r.family # f
             group == SelectSeq(sorted, Same)
             first == [Head(group) EXCEPT
                          !.id = FirstValue([i \in 1..Len(group) |-> group[i].id]),
                          !.name = FirstValue([i \in 1..Len(group) |-> group[i].name])]
         IN  <<first>> \o groupby_first(SelectSeq(sorted, Other))

Top10Of(df) == Take(SortValues(df, "value"), 10)

Free5Of(df) ==
    LET IsFree(r) == r.free
    IN  Take(SortValues(SelectSeq(df, IsFree), "context"), 5)

BestPerFamilyOf(df) ==
    SortValues(groupby_first(SortValues(df, "family")), "score")

\* lines 80-82
Formatted(d) ==
    [i \in 1..Len(d) |-> [d[i] EXCEPT !.price_in = Round10(@),
                                      !.price_out = Round10(@)]]

----------------------------------------------------------------------------
(* openrouter.py: the script, top to bottom *)

ExportInit ==
    /\ epc = "fetch"
    /\ models = <<>>
    /\ rows = <<>>
    /\ top10 = <<>>
    /\ free5 = <<>>
    /\ best_per_family = <<>>
    /\ outfile = None
    /\ eout = <<>>
    /\ eexit = -1
    /\ raised = None

\* lines 37-38
FetchCatalog ==
    /\ epc = "fetch"
    /\ \E data \in Catalogs : models' = data
    /\ epc' = "rows"
    /\ UNCHANGED <<rows, top10, free5, best_per_family, outfile, eout, eexit,
                   raised>>
    /\ UNCHANGED <<scanVars, scoreVars>>

\* line 37: requests.get or raise_for_status raises; nothing catches it.
FetchCatalogFails ==
    /\ epc = "fetch"
    /\ epc' = "failed"
    /\ eexit' = 1
    /\ raised' = Some("RequestException")
    /\ UNCHANGED <<models, rows, top10, free5, best_per_family, outfile, eout>>
    /\ UNCHANGED <<scanVars, scoreVars>>

\* lines 40-59; an exception of the loop ends the run with status 1.
Normalize ==
    /\ epc = "rows"
    /\ LET r == build_rows(models, <<>>)
       IN  /\ rows' = r.rows
           /\ epc' = IF r.raises THEN "failed" ELSE "rank"
           /\ eexit' = IF r.raises THEN 1 ELSE eexit
           /\ raised' = IF r.raises THEN Some("AttributeError") ELSE raised
    /\ UNCHANGED <<models, top10, free5, best_per_family, outfile, eout>>
    /\ UNCHANGED <<scanVars, scoreVars>>

\* lines 61-77. pd.DataFrame([]) has no columns: with no row, sort_values of
\* line 64 raises KeyError and the run ends with status 1.
Rank ==
    /\ epc = "rank"
    /\ IF rows = <<>>
       THEN /\ epc' = "failed"
            /\ eexit' = 1
            /\ raised' = Some("KeyError")
            /\ UNCHANGED <<top10, free5, best_per_family>>
       ELSE /\ top10' = Top10Of(rows)
            /\ free5' = Free5Of(rows)
            /\ best_per_family' = BestPerFamilyOf(rows)
            /\ epc' = "write"
            /\ UNCHANGED <<eexit, raised>>
    /\ UNCHANGED <<models, rows, outfile, eout>>
    /\ UNCHANGED <<scanVars, scoreVars>>

\* lines 80-89
Write ==
    /\ epc = "write"
    /\ top10' = Formatted(top10)
    /\ free5' = Formatted(free5)
    /\ best_per_family' = Formatted(best_per_family)
    /\ outfile' = Some([Top10_CustoBeneficio |-> top10', Top5_Free |-> free5',
                        BestPerFamily |-> best_per_family'])
    /\ eout' = Append(eout, "OK -> openrouter_models.xlsx")
    /\ eexit' = 0
    /\ epc' = "done"
    /\ UNCHANGED <<models, rows, raised>>
    /\ UNCHANGED <<scanVars, scoreVars>>

ExportNext == FetchCatalog \/ FetchCatalogFails \/ Normalize \/ Rank \/ Write

----------------------------------------------------------------------------
(* openrouter.py: score() and the rounding of line 56, on chosen arguments *)

\* Prices the rows accept (none is negative), in units of 1e-12.
ScorePrices == {0, 1, 3, 100000}

ScoreContexts == {1, 2, 4000, 8000, 100000, 100001, 524287, 524288, 524289,
                  1000000}

ScoreInit ==
    /\ spc = "args"
    /\ s_in \in ScorePrices
    /\ s_out \in ScorePrices
    /\ s_ctx1 \in ScoreContexts
    /\ s_ctx2 \in ScoreContexts
    /\ s_score1 = Round12(score(0, 0, 0))
    /\ s_score2 = Round12(score(0, 0, 0))

ComputeScores ==
    /\ spc = "args"
    /\ s_score1' = Round12(score(s_in, s_out, s_ctx1))
    /\ s_score2' = Round12(score(s_in, s_out, s_ctx2))
    /\ spc' = "scored"
    /\ UNCHANGED <<s_in, s_out, s_ctx1, s_ctx2>>
    /\ UNCHANGED <<scanVars, exportVars>>

ScoreNext == ComputeScores

----------------------------------------------------------------------------
(* The three specifications: one script runs, the others stay as they start *)

ScanIdle ==
    /\ pc = "idle" /\ lockfile_path = DefaultLockfile /\ output_json = FALSE
    /\ urlIdx = 1 /\ iocs = <<>> /\ fetched_online = FALSE /\ iocs_list = <<>>
    /\ lockfile = [kind |-> "unread"] /\ found = <<>> /\ status = "unset"
    /\ exit_code = -1 /\ out = <<>>

ExportIdle ==
    /\ epc = "idle" /\ models = <<>> /\ rows = <<>> /\ top10 = <<>>
    /\ free5 = <<>> /\ best_per_family = <<>> /\ outfile = None /\ eout = <<>>
    /\ eexit = -1 /\ raised = None

ScoreIdle ==
    /\ spc = "idle" /\ s_in = 0 /\ s_out = 0 /\ s_ctx1 = 0 /\ s_ctx2 = 0
    /\ s_score1 = Round12(score(0, 0, 0)) /\ s_score2 = Round12(score(0, 0, 0))

ScanStart == ScanInit /\ ExportIdle /\ ScoreIdle
ExportStart == ExportInit /\ ScanIdle /\ ScoreIdle
ScoreStart == ScoreInit /\ ScanIdle /\ ExportIdle

SpecScan == ScanStart /\ [][ScanNext]_vars

SpecExport == ExportStart /\ [][ExportNext]_vars

SpecScore == ScoreStart /\ [][ScoreNext]_vars

----------------------------------------------------------------------------
(* npm-scan.py: properties *)

Scanned == pc \in {"report", "done"} /\ lockfile.kind = "json"
SelectedV2 == Scanned /\ lockfile.lock_data.packages # None
SelectedV1 == Scanned /\ lockfile.lock_data.packages = None
                      /\ lockfile.lock_data.dependencies # None

\* The findings the flat walk is said to give: one per entry whose key is
\* node_modules/<name> and whose (name, version) is an IOC, in map order.
RECURSIVE FlatExpected(_, _)
FlatExpected(packages, list) ==
    IF packages = <<>> THEN <<>>
    ELSE LET e == Head(packages)
             hit == /\ Len(e.path) = 2
                    /\ e.path[1] = NODE_MODULES
                    /\ e.version # None
                    /\ Ioc(e.path[2], e.version[1]) \in Range(list)
         IN  (IF hit THEN <<Ioc(e.path[2], e.version[1])>> ELSE <<>>)
             \o FlatExpected(Tail(packages), list)

\* C1: after the flat (v2) walk the findings are exactly, in map order, the
\* entries keyed node_modules/<name> whose (name, version) is an IOC, one
\* finding each; {"node_modules/chalk": 5.6.1} against {chalk@5.6.1} is
\* "compromised" with the single finding chalk@5.6.1.
C1_FlatFindingsExact ==
    SelectedV2 =>
        /\ found = FlatExpected(lockfile.lock_data.packages[1], iocs_list)
        /\ ( /\ lockfile.lock_data.packages[1]
                  = <<[path |-> <<NODE_MODULES, "chalk">>, version |-> Some("5.6.1")]>>
             /\ iocs_list = <<Chalk561>> )
           => (status = "compromised" /\ found = <<Chalk561>>)

\* The package an entry of the "packages" map installs: the last segment of
\* its key (the names of the model hold no "/").
InstalledName(path) == path[Len(path)]

\* C3: after the flat (v2) walk, every entry under node_modules/, nested or
\* not, whose installed package and version are an IOC is a finding, and every
\* finding names the package some such entry installs, at its version.
C3_FlatCoversTransitive ==
    SelectedV2 =>
        LET entries == Range(lockfile.lock_data.packages[1])
            under == {e \in entries : StartsWithNodeModules(e.path) /\ e.version # None}
        IN  /\ \A e \in under :
                  Ioc(InstalledName(e.path), e.version[1]) \in Range(iocs_list)
                  => Ioc(InstalledName(e.path), e.version[1]) \in Range(found)
            /\ \A f \in Range(found) :
                  \E e \in under : /\ InstalledName(e.path) = f.package
                                   /\ e.version[1] = f.version

\* Every entry of a "dependencies" map, at every depth.
RECURSIVE V1AllEntries(_)
V1AllEntries(deps) ==
    UNION { {deps[i]} \cup (IF deps[i].dependencies # None
                            THEN V1AllEntries(deps[i].dependencies[1])
                            ELSE {})
            : i \in 1..Len(deps) }

V1IsIoc(e) == e.version # None /\ Ioc(e.name, e.version[1]) \in Range(iocs_list)

\* C2: after the recursive (v1) walk, every entry at every depth whose
\* (name, version) is an IOC is among the findings, whatever its ancestors are.
C2_RecursiveVisitsAll ==
    SelectedV1 =>
        \A e \in V1AllEntries(lockfile.lock_data.dependencies[1]) :
            V1IsIoc(e) => Ioc(e.name, e.version[1]) \in Range(found)

\* A three-level tree whose deepest entry alone is an IOC, under a parent with
\* a version and a grandparent with none, has been walked.
C2_Witness ==
    /\ SelectedV1
    /\ \E t \in Range(lockfile.lock_data.dependencies[1]) :
         /\ t.version = None /\ t.dependencies # None
         /\ \E m \in Range(t.dependencies[1]) :
              /\ m.version # None /\ ~V1IsIoc(m) /\ m.dependencies # None
              /\ \E l \in Range(m.dependencies[1]) : V1IsIoc(l)
    /\ found # <<>>

NumFetchErrors == Cardinality({i \in 1..Len(out) : out[i].kind = "fetch_error"})

Reports == {i \in 1..Len(out) : out[i].kind \in {"json", "text"}}

\* C4: fetched_online is true exactly when some fetch so far succeeded; when
\* every fetch failed the IOC set is empty and the run goes on: on any parsed
\* lockfile it ends with exit status 0 and reports "clean", no finding and
\* fetched_online false.
C4_FetchFailureNonFatal ==
    /\ fetched_online <=> (NumFetchErrors < urlIdx - 1)
    /\ (urlIdx > Len(urls) /\ NumFetchErrors = Len(urls)) =>
         /\ iocs = <<>> /\ iocs_list = <<>>
         /\ exit_code \in {-1, 0} \/ lockfile.kind # "json"
         /\ Scanned => (status = "clean" /\ found = <<>>)
         /\ (pc = "done" /\ lockfile.kind = "json") =>
              /\ exit_code = 0
              /\ Reports = {Len(out)}
              /\ out[Len(out)].status = "clean"
              /\ out[Len(out)].findings = <<>>
              /\ out[Len(out)].fetched_from_internet = FALSE

\* Every fetch failed and a lockfile that holds chalk 5.6.1 was reported on.
C4_Witness ==
    /\ pc = "done" /\ lockfile.kind = "json" /\ exit_code = 0
    /\ NumFetchErrors = Len(urls)
    /\ lockfile.lock_data.packages # None
    /\ \E e \in Range(lockfile.lock_data.packages[1]) :
         e.path = <<NODE_MODULES, "chalk">> /\ e.version = Some("5.6.1")

\* C5: a missing lockfile ends the run with status 2 after the message naming
\* the path, with no matching and no report, whatever the fetches gave; a
\* lockfile that parses ends it with status 0, clean or compromised; nothing
\* else gives 2, and a malformed lockfile gives neither 2 nor 0.
C5_ExitStatus ==
    pc = "done" =>
        /\ lockfile.kind = "missing" =>
             /\ exit_code = 2
             /\ out[Len(out)] = [kind |-> "not_found", path |-> lockfile_path]
             /\ Reports = {} /\ found = <<>> /\ status = "unset"
        /\ lockfile.kind = "json" =>
             /\ exit_code = 0
             /\ status \in {"clean", "compromised"}
             /\ Reports = {Len(out)} /\ out[Len(out)].status = status
        /\ exit_code = 2 => lockfile.kind = "missing"
        /\ lockfile.kind = "malformed" => (exit_code \notin {0, 2} /\ Reports = {})

\* The run ended on a missing lockfile named on the command line, after a
\* successful fetch that gave IOCs.
C5_Witness ==
    /\ pc = "done" /\ lockfile.kind = "missing" /\ exit_code = 2
    /\ fetched_online /\ iocs_list # <<>>
    /\ lockfile_path # DefaultLockfile

----------------------------------------------------------------------------
(* openrouter.py: properties *)

Ranked == epc \in {"write", "done"}

Outputs == Range(top10) \cup Range(free5) \cup Range(best_per_family)

\* The context length of a record as the claims read it: the provider's value
\* when the provider gives one (not null, not 0), else the base value, else 0.
EffectiveContext(m) ==
    LET over == IF m.top_provider.t = "obj" THEN m.top_provider.context_length
                ELSE None
    IN  IF over # None /\ over[1] # 0 THEN over[1]
        ELSE IF m.context_length # None THEN m.context_length[1] ELSE 0

AbsentOrNegative(x) == x.t \in {"null", "text"} \/ x.v < 0

Unrankable(m) ==
    \/ EffectiveContext(m) <= 0
    \/ m.pricing.t \in {"missing", "null"}
    \/ AbsentOrNegative(m.pricing.prompt)
    \/ AbsentOrNegative(m.pricing.completion)

C7_StrictlyDecreasing ==
    spc = "scored" =>
        /\ (0 < s_ctx1 /\ s_ctx1 < s_ctx2 /\ s_ctx2 <= CTX_CAP)
             => ScoreLess(s_score2, s_score1)
        /\ (s_ctx1 >= CTX_CAP /\ s_ctx2 >= CTX_CAP) => s_score1 = s_score2

\* C7, amended: for fixed prices, 0 < c1 < c2 <= CTX_CAP gives
\* score(c2) <= score(c1), and c1, c2 >= CTX_CAP give equal scores.
C7_NonIncreasing ==
    spc = "scored" =>
        /\ (0 < s_ctx1 /\ s_ctx1 < s_ctx2 /\ s_ctx2 <= CTX_CAP)
             => ~ScoreLess(s_score1, s_score2)
        /\ (s_ctx1 >= CTX_CAP /\ s_ctx2 >= CTX_CAP) => s_score1 = s_score2

\* Two contexts below the cap whose scores, at a price that is not zero, are
\* the same after the rounding.
C7_Witness ==
    /\ spc = "scored"
    /\ s_in > 0 /\ s_out > 0
    /\ s_ctx1 < s_ctx2 /\ s_ctx2 <= CTX_CAP
    /\ s_score1 = s_score2

FamiliesOf(df) == {df[i].family : i \in 1..Len(df)}

\* The rows of one family in the order (score, price_in, price_out ascending,
\* context descending).
FamilyRanking(df, f) ==
    LET InFamily(r) == r.family = f
    IN  SortValues(SelectSeq(df, InFamily), "value")

\* C8: before the formatting, best_per_family holds exactly one row per family
\* of the rows, each of them equal in every field to the first row of its
\* family under (score, price_in, price_out ascending, context descending),
\* and they are in ascending order of score.
C8_BestPerFamily ==
    epc = "write" =>
        /\ Len(best_per_family) = Cardinality(FamiliesOf(rows))
        /\ FamiliesOf(best_per_family) = FamiliesOf(rows)
        /\ \A i \in 1..Len(best_per_family) :
               best_per_family[i] = Head(FamilyRanking(rows, best_per_family[i].family))
        /\ \A i, j \in 1..Len(best_per_family) :
               i < j => ~ScoreLess(best_per_family[j].score, best_per_family[i].score)

\* C9: after a successful fetch no record of the catalog ends the run with an
\* exception: only the fetch itself can, and otherwise the run reaches the
\* write and the confirmation line.
C9_BadRecordNeverAborts ==
    /\ raised \in {None, Some("RequestException")}
    /\ epc = "done" => (outfile # None /\ eout # <<>> /\ eexit = 0)

IsLetter(c) == Ord(c) > Ord(":")

S_router == <<"r", "o", "u", "t", "e", "r">>

\* The word w stands in s with no letter right before or right after it.
HasToken(s, w) ==
    \E i \in 1..(Len(s) - Len(w) + 1) :
        /\ SubSeq(s, i, i + Len(w) - 1) = w
        /\ i = 1 \/ ~IsLetter(s[i - 1])
        /\ i + Len(w) - 1 = Len(s) \/ ~IsLetter(s[i + Len(w)])

RouterText(s) ==
    \/ StartsWith(s, S_openrouter_auto)
    \/ HasToken(s, S_router)
    \/ EndsWith(s, S_slash_auto)

RouterByClaim(m) ==
    \/ RouterText(Lower(OrEmpty(m.id)))
    \/ RouterText(Lower(OrEmpty(m.name)))

RowIds == {rows[i].id : i \in 1..Len(rows)}

\* C10: once the rows are built, a record whose lowercased id or name starts
\* with "openrouter/auto", holds the token "router" or ends with "/auto" is no
\* row, and a record that meets none of the three and can be ranked is a row.
C10_RouterExclusion ==
    epc \in {"rank", "write", "done"} =>
        \A i \in 1..Len(models) :
            /\ RouterByClaim(models[i]) => models[i].id \notin RowIds
            /\ (~RouterByClaim(models[i]) /\ ~Unrankable(models[i]))
                   => models[i].id \in RowIds

====
